---- MODULE Spec2Model ----
(***************************************************************************)
(* Model of print_all_pdfs.py: the batch driver main(), the per-file       *)
(* logic print_pdf(), the sheet imposition functions and the two print     *)
(* backends.  One behaviour is the duplex workflow of the script: the      *)
(* batch is run once for one side, the paper stack is flipped, and the     *)
(* batch is run again for the other side.                                  *)
(***************************************************************************)
EXTENDS Integers, Sequences, FiniteSets

\* ------------------------------------------------------------------ bounds
MaxDocs == 2
MaxPages == 5
MaxSel == 3
MaxPagesOneDoc == 12

\* --------------------------------------------------------------- constants
Sides == {"front", "back"}
Printers == {"target", "other"}
PRINTER_NAME == "target"
NoPrinter == "none"
NoTmp == <<>>
NoExc == "none"

VARIABLES
    pageCountOf,    \* directory contents: path id -> pages of that PDF
    sumatraInstalled, \* SumatraPDF.exe is present on this machine
    run,            \* 1 = first invocation of the script, 2 = second
    side,           \* args.side of the current invocation
    sumatra_exe,    \* find_sumatra() found an executable
    pdf_files,      \* main: the sorted list of paths
    idx,            \* main: position of the for loop in pdf_files
    pc,             \* control position
    total,          \* print_pdf: len(reader.pages)
    num_sheets,     \* print_pdf: num_physical_sheets(total)
    pages,          \* print_pdf: selected page numbers
    append_blank,   \* print_pdf: trailing blank flag
    sheets,         \* the writer's pages, i.e. the content of the temp PDF
    tmp_path,       \* temp file of the print_pdf call in progress
    tmpFiles,       \* temp files that exist on disk
    exc,            \* exception in flight through a finally block
    defaultPrinter, \* the system default printer
    original,       \* print_via_win32: saved default printer
    jobs,           \* artifacts handed to send_to_printer, in order
    selected,       \* history: page selection computed per side and path
    outcome         \* history: how print_pdf ended per side and path

vars == <<pageCountOf, sumatraInstalled, run, side, sumatra_exe, pdf_files, idx, pc, total,
          num_sheets, pages, append_blank, sheets, tmp_path, tmpFiles, exc,
          defaultPrinter, original, jobs, selected, outcome>>

\* ------------------------------------------------------------ pure helpers
\* math.ceil(n / 2) for a non-negative integer n
CeilHalf(n) == (n + 1) \div 2

num_physical_sheets(total_pages) == CeilHalf(total_pages)

\* The loop body shared by get_front_pages and get_back_pages:
\* for sheet_idx in range(start, num, 2): append p1, and p2 if p2 <= total
RECURSIVE SheetLoop(_, _, _)
SheetLoop(sheet_idx, num, total_pages) ==
    IF sheet_idx >= num THEN <<>>
    ELSE LET p1 == sheet_idx * 2 + 1
             p2 == p1 + 1
         IN  <<p1>> \o (IF p2 <= total_pages THEN <<p2>> ELSE <<>>)
                    \o SheetLoop(sheet_idx + 2, num, total_pages)

\* the same loop without the test p2 <= total_pages
RECURSIVE SheetLoopNoTest(_, _, _)
SheetLoopNoTest(sheet_idx, num, total_pages) ==
    IF sheet_idx >= num THEN <<>>
    ELSE <<sheet_idx * 2 + 1, sheet_idx * 2 + 2>>
             \o SheetLoopNoTest(sheet_idx + 2, num, total_pages)

GetFrontPagesNoTest(total_pages) ==
    SheetLoopNoTest(0, num_physical_sheets(total_pages), total_pages)

get_front_pages(total_pages) ==
    SheetLoop(0, num_physical_sheets(total_pages), total_pages)

GetBackPagesFromTwo(total_pages) ==
    SheetLoop(2, num_physical_sheets(total_pages), total_pages)

get_back_pages(total_pages) ==
    SheetLoop(1, num_physical_sheets(total_pages), total_pages)

NeedsBackBlankEven(total_pages) == num_physical_sheets(total_pages) % 2 = 0

needs_back_blank(total_pages) == num_physical_sheets(total_pages) % 2 = 1

\* A sheet is <<left, right>>; 0 stands for an empty half.
BlankSheet == <<0, 0>>

make_2up_sheet(left_page, right_page) == <<left_page, right_page>>

\* build_print_pdf lines 141-151: pair up the pages, then the blank
RealSheets(sel) ==
    [k \in 1..CeilHalf(Len(sel)) |->
        make_2up_sheet(sel[2 * k - 1],
                       IF 2 * k <= Len(sel) THEN sel[2 * k] ELSE 0)]

WriterPagesNoBlank(sel, blank) == RealSheets(sel)

WriterPagesBlankFirst(sel, blank) ==
    (IF blank THEN <<BlankSheet>> ELSE <<>>) \o RealSheets(sel)

WriterPages(sel, blank) ==
    RealSheets(sel) \o (IF blank THEN <<BlankSheet>> ELSE <<>>)

\* sorted(): insertion of one element into an ascending sequence
RECURSIVE Insert(_, _)
Insert(x, s) ==
    IF s = <<>> THEN <<x>>
    ELSE IF x <= Head(s) THEN <<x>> \o s
    ELSE <<Head(s)>> \o Insert(x, Tail(s))

RECURSIVE sorted(_)
sorted(s) == IF s = <<>> THEN <<>> ELSE Insert(Head(s), sorted(Tail(s)))

\* glob.glob() returns the matching paths in arbitrary order
GlobResults(files) ==
    {g \in [1..Cardinality(files) -> files] :
        \A i, j \in 1..Cardinality(files) : i # j => g[i] # g[j]}

OtherSide(s) == IF s = "front" THEN "back" ELSE "front"

Unselected == [done |-> FALSE, pages |-> <<>>]


\* the test of line 228 that routes an empty selection to the blank-only job
BlankOnlyWhenAnySheetCount(s, n) == s = "back" /\ n >= 0

BlankOnlyBranch(s, n) == s = "back" /\ n >= 1

\* line 194: the value the finally clause hands to SetDefaultPrinter
KeepCurrentPrinter(orig, current) == current

RestoredPrinter(orig, current) == orig

\* the temp file print_pdf creates for path d in the pass of side s
TmpName(s, d) == <<s, d>>

Locals == <<total, num_sheets, pages, append_blank, sheets, tmp_path, exc>>

ResetLocals ==
    /\ total' = 0
    /\ num_sheets' = 0
    /\ pages' = <<>>
    /\ append_blank' = FALSE
    /\ sheets' = <<>>
    /\ tmp_path' = NoTmp
    /\ exc' = NoExc

CurPath == pdf_files[idx]

\* lines 51-55: an executable is found iff one is installed
find_sumatra == sumatraInstalled

\* -------------------------------------------------------------------- Init
\* the directories of 1..maxDocs PDF files with 0..maxPages pages each
Directories(maxDocs, maxPages) ==
    UNION {[1..n -> 0..maxPages] : n \in 1..maxDocs}

InitIn(directories) ==
    /\ pageCountOf \in directories
    /\ run = 1
    /\ side \in Sides
    /\ sumatraInstalled \in BOOLEAN
    /\ sumatra_exe = FALSE
    /\ pdf_files = <<>>
    /\ idx = 0
    /\ pc = "main"
    /\ total = 0
    /\ num_sheets = 0
    /\ pages = <<>>
    /\ append_blank = FALSE
    /\ sheets = <<>>
    /\ tmp_path = NoTmp
    /\ tmpFiles = {}
    /\ exc = NoExc
    /\ defaultPrinter \in Printers
    /\ original = NoPrinter
    /\ jobs = <<>>
    /\ selected = [s \in Sides |-> [d \in DOMAIN pageCountOf |-> Unselected]]
    /\ outcome = [s \in Sides |-> [d \in DOMAIN pageCountOf |-> "pending"]]

Init == InitIn(Directories(MaxDocs, MaxPages))

\* ------------------------------------------------------------------- main
\* lines 299-315: list the directory, sort it, probe for SumatraPDF
Main ==
    /\ pc = "main"
    /\ \E g \in GlobResults(DOMAIN pageCountOf) : pdf_files' = sorted(g)
    /\ sumatra_exe' = find_sumatra
    /\ idx' = 1
    /\ pc' = "loop"
    /\ UNCHANGED <<pageCountOf, sumatraInstalled, run, side, Locals, tmpFiles, defaultPrinter,
                   original, jobs, selected, outcome>>

\* line 317-318: the for loop calls print_pdf on the next path
ForNext ==
    /\ pc = "loop"
    /\ idx <= Len(pdf_files)
    /\ pc' = "print_pdf"
    /\ UNCHANGED <<pageCountOf, sumatraInstalled, run, side, sumatra_exe, pdf_files, idx, Locals,
                   tmpFiles, defaultPrinter, original, jobs, selected, outcome>>

\* lines 320-321: the loop is exhausted, "All done!"
AllDone ==
    /\ pc = "loop"
    /\ idx > Len(pdf_files)
    /\ pc' = "done"
    /\ UNCHANGED <<pageCountOf, sumatraInstalled, run, side, sumatra_exe, pdf_files, idx, Locals,
                   tmpFiles, defaultPrinter, original, jobs, selected, outcome>>

\* print_pdf returns normally to the loop of main
Return ==
    /\ outcome' = [outcome EXCEPT ![side][CurPath] = "returned"]
    /\ idx' = idx + 1
    /\ pc' = "loop"

\* an exception (or SystemExit) leaves print_pdf; main has no handler, so the
\* interpreter exits
Raise ==
    /\ outcome' = [outcome EXCEPT ![side][CurPath] = "raised"]
    /\ idx' = idx
    /\ pc' = "crashed"

\* --------------------------------------------------------------- print_pdf
\* lines 214-224: open the file, count pages, select the pages of the side
PrintPdf_Select ==
    /\ pc = "print_pdf"
    /\ LET t == pageCountOf[CurPath]
           sel == IF side = "front" THEN get_front_pages(t)
                                    ELSE get_back_pages(t)
       IN  /\ total' = t
           /\ num_sheets' = num_physical_sheets(t)
           /\ pages' = sel
           /\ append_blank' = IF side = "front" THEN FALSE
                                                ELSE needs_back_blank(t)
           /\ selected' = [selected EXCEPT ![side][CurPath] =
                              [done |-> TRUE, pages |-> sel]]
    /\ pc' = "selected"
    /\ UNCHANGED <<pageCountOf, sumatraInstalled, run, side, sumatra_exe, pdf_files, idx, sheets,
                   tmp_path, tmpFiles, exc, defaultPrinter, original, jobs,
                   outcome>>

\* line 214: PdfReader raises on an unreadable or corrupt file
PrintPdf_ReaderRaises ==
    /\ pc = "print_pdf"
    /\ Raise
    /\ ResetLocals
    /\ UNCHANGED <<pageCountOf, sumatraInstalled, run, side, sumatra_exe, pdf_files, tmpFiles,
                   defaultPrinter, original, jobs, selected>>

\* lines 226, 243-245: empty selection, "Nothing to print for this side"
PrintPdf_Nothing ==
    /\ pc = "selected"
    /\ pages = <<>>
    /\ ~BlankOnlyBranch(side, num_sheets)
    /\ Return
    /\ ResetLocals
    /\ UNCHANGED <<pageCountOf, sumatraInstalled, run, side, sumatra_exe, pdf_files, tmpFiles,
                   defaultPrinter, original, jobs, selected>>

\* lines 226-236: empty selection on the back side, one blank sheet is
\* written to a temp file
PrintPdf_BlankOnly ==
    /\ pc = "selected"
    /\ pages = <<>>
    /\ BlankOnlyBranch(side, num_sheets)
    /\ sheets' = <<BlankSheet>>
    /\ tmp_path' = TmpName(side, CurPath)
    /\ tmpFiles' = tmpFiles \cup {TmpName(side, CurPath)}
    /\ pc' = "send"
    /\ UNCHANGED <<pageCountOf, sumatraInstalled, run, side, sumatra_exe, pdf_files, idx, total,
                   num_sheets, pages, append_blank, exc, defaultPrinter,
                   original, jobs, selected, outcome>>

\* lines 234-235: the temp file exists, writer.write(tmp) raises
PrintPdf_BlankOnlyWriteRaises ==
    /\ pc = "selected"
    /\ pages = <<>>
    /\ BlankOnlyBranch(side, num_sheets)
    /\ tmpFiles' = tmpFiles \cup {TmpName(side, CurPath)}
    /\ Raise
    /\ ResetLocals
    /\ UNCHANGED <<pageCountOf, sumatraInstalled, run, side, sumatra_exe, pdf_files,
                   defaultPrinter, original, jobs, selected>>

\* build_print_pdf lines 134-157, the call completes: the writer holds the
\* sheets and the temp file holds the writer's pages
BuildPrintPdfReturns ==
    /\ sheets' = WriterPages(pages, append_blank)
    /\ tmp_path' = TmpName(side, CurPath)
    /\ tmpFiles' = tmpFiles \cup {TmpName(side, CurPath)}
    /\ pc' = "send"
    /\ UNCHANGED <<pageCountOf, sumatraInstalled, run, side, sumatra_exe,
                   pdf_files, idx, total, num_sheets, pages, append_blank, exc,
                   defaultPrinter, original, jobs, selected, outcome>>

\* build_print_pdf lines 154-155: the temp file exists, writer.write(tmp)
\* raises
BuildPrintPdfRaises ==
    /\ tmpFiles' = tmpFiles \cup {TmpName(side, CurPath)}
    /\ Raise
    /\ ResetLocals
    /\ UNCHANGED <<pageCountOf, sumatraInstalled, run, side, sumatra_exe,
                   pdf_files, defaultPrinter, original, jobs, selected>>

\* lines 247-252: a non-empty selection goes to build_print_pdf
BuildPrintPdf ==
    /\ pc = "selected"
    /\ pages # <<>>
    /\ BuildPrintPdfReturns

BuildPrintPdfWriteRaises ==
    /\ pc = "selected"
    /\ pages # <<>>
    /\ BuildPrintPdfRaises

\* ---------------------------------------------------------- send_to_printer
\* lines 238 / 254 and 197-202: the temp file is handed to the backend that
\* find_sumatra selected at startup
SendToPrinter ==
    /\ pc = "send"
    /\ jobs' = Append(jobs, [path |-> CurPath, side |-> side, sheets |-> sheets])
    /\ pc' = IF sumatra_exe THEN "sumatra" ELSE "win32"
    /\ UNCHANGED <<pageCountOf, sumatraInstalled, run, side, sumatra_exe, pdf_files, idx, Locals,
                   tmpFiles, defaultPrinter, original, selected, outcome>>

\* lines 164-177: subprocess.run returns; any return code only changes the
\* message that is printed ("OK Job sent." or "WARNING: ...")
ReturnCodes == {0, 1, 2}

PrintViaSumatra ==
    /\ pc = "sumatra"
    /\ \E returncode \in ReturnCodes : pc' = "finally"
    /\ UNCHANGED <<pageCountOf, sumatraInstalled, run, side, sumatra_exe, pdf_files, idx, Locals,
                   tmpFiles, defaultPrinter, original, jobs, selected, outcome>>

\* line 172: subprocess.run raises (the executable cannot be started)
PrintViaSumatraRaises ==
    /\ pc = "sumatra"
    /\ exc' = "error"
    /\ pc' = "finally"
    /\ UNCHANGED <<pageCountOf, sumatraInstalled, run, side, sumatra_exe, pdf_files, idx, total,
                   num_sheets, pages, append_blank, sheets, tmp_path, tmpFiles,
                   defaultPrinter, original, jobs, selected, outcome>>

\* lines 181-185: pywin32 is missing, sys.exit(1) raises SystemExit
Win32_ImportFails ==
    /\ pc = "win32"
    /\ exc' = "exit"
    /\ pc' = "finally"
    /\ UNCHANGED <<pageCountOf, sumatraInstalled, run, side, sumatra_exe, pdf_files, idx, total,
                   num_sheets, pages, append_blank, sheets, tmp_path, tmpFiles,
                   defaultPrinter, original, jobs, selected, outcome>>

\* line 186: original = win32print.GetDefaultPrinter()
Win32_GetDefaultPrinter ==
    /\ pc = "win32"
    /\ original' = defaultPrinter
    /\ pc' = "w32_set"
    /\ UNCHANGED <<pageCountOf, sumatraInstalled, run, side, sumatra_exe, pdf_files, idx, Locals,
                   tmpFiles, defaultPrinter, jobs, selected, outcome>>

\* line 188: win32print.SetDefaultPrinter(printer)
Win32_SetDefaultPrinter ==
    /\ pc = "w32_set"
    /\ defaultPrinter' = PRINTER_NAME
    /\ pc' = "w32_exec"
    /\ UNCHANGED <<pageCountOf, sumatraInstalled, run, side, sumatra_exe, pdf_files, idx, Locals,
                   tmpFiles, original, jobs, selected, outcome>>

\* line 188 raises (unknown printer name)
Win32_SetDefaultPrinterRaises ==
    /\ pc = "w32_set"
    /\ exc' = "error"
    /\ pc' = "w32_finally"
    /\ UNCHANGED <<pageCountOf, sumatraInstalled, run, side, sumatra_exe, pdf_files, idx, total,
                   num_sheets, pages, append_blank, sheets, tmp_path, tmpFiles,
                   defaultPrinter, original, jobs, selected, outcome>>

\* lines 189-192: ShellExecute "printto" returns
Win32_ShellExecute ==
    /\ pc = "w32_exec"
    /\ pc' = "w32_finally"
    /\ UNCHANGED <<pageCountOf, sumatraInstalled, run, side, sumatra_exe, pdf_files, idx, Locals,
                   tmpFiles, defaultPrinter, original, jobs, selected, outcome>>

\* line 190 raises
Win32_ShellExecuteRaises ==
    /\ pc = "w32_exec"
    /\ exc' = "error"
    /\ pc' = "w32_finally"
    /\ UNCHANGED <<pageCountOf, sumatraInstalled, run, side, sumatra_exe, pdf_files, idx, total,
                   num_sheets, pages, append_blank, sheets, tmp_path, tmpFiles,
                   defaultPrinter, original, jobs, selected, outcome>>

\* lines 193-194: finally: win32print.SetDefaultPrinter(original)
Win32_Finally ==
    /\ pc = "w32_finally"
    /\ defaultPrinter' = RestoredPrinter(original, defaultPrinter)
    /\ pc' = "finally"
    /\ UNCHANGED <<pageCountOf, sumatraInstalled, run, side, sumatra_exe, pdf_files, idx, Locals,
                   tmpFiles, original, jobs, selected, outcome>>

\* ------------------------------------------------- print_pdf, finally clause
\* print_pdf leaves its finally clause: the exception in flight, if any,
\* goes on to main, otherwise print_pdf returns
LeaveFinally ==
    /\ IF exc = NoExc THEN Return ELSE Raise
    /\ ResetLocals

\* lines 239-242 / 255-260: os.unlink removes the temp file
Finally_Unlink ==
    /\ pc = "finally"
    /\ tmpFiles' = tmpFiles \ {tmp_path}
    /\ LeaveFinally
    /\ UNCHANGED <<pageCountOf, sumatraInstalled, run, side, sumatra_exe, pdf_files,
                   defaultPrinter, original, jobs, selected>>

\* lines 241-242 / 257-260: os.unlink raises and the handler swallows it
Finally_UnlinkRaises ==
    /\ pc = "finally"
    /\ tmpFiles' = tmpFiles
    /\ LeaveFinally
    /\ UNCHANGED <<pageCountOf, sumatraInstalled, run, side, sumatra_exe, pdf_files,
                   defaultPrinter, original, jobs, selected>>

\* ------------------------------------------------------- second invocation
\* The pass over the batch is complete; the user flips the stack and runs the
\* script again for the other side (usage, lines 11-13).
NextInvocation ==
    /\ pc = "done"
    /\ run = 1
    /\ run' = 2
    /\ side' = OtherSide(side)
    /\ sumatra_exe' = FALSE
    /\ pdf_files' = <<>>
    /\ idx' = 0
    /\ pc' = "main"
    /\ UNCHANGED <<pageCountOf, sumatraInstalled, Locals, tmpFiles, defaultPrinter, original,
                   jobs, selected, outcome>>

Next ==
    \/ Main
    \/ ForNext
    \/ AllDone
    \/ PrintPdf_Select
    \/ PrintPdf_ReaderRaises
    \/ PrintPdf_Nothing
    \/ PrintPdf_BlankOnly
    \/ PrintPdf_BlankOnlyWriteRaises
    \/ BuildPrintPdf
    \/ BuildPrintPdfWriteRaises
    \/ SendToPrinter
    \/ PrintViaSumatra
    \/ PrintViaSumatraRaises
    \/ Win32_ImportFails
    \/ Win32_GetDefaultPrinter
    \/ Win32_SetDefaultPrinter
    \/ Win32_SetDefaultPrinterRaises
    \/ Win32_ShellExecute
    \/ Win32_ShellExecuteRaises
    \/ Win32_Finally
    \/ Finally_Unlink
    \/ Finally_UnlinkRaises
    \/ NextInvocation

Spec == Init /\ [][Next]_vars

\* the same program on a directory that holds one, possibly long, document
InitOneDoc == InitIn(Directories(1, MaxPagesOneDoc))

SpecOneDoc == InitOneDoc /\ [][Next]_vars

TypeOK ==
    /\ run \in 1..2
    /\ side \in Sides
    /\ sumatra_exe \in BOOLEAN
    /\ idx \in 0..(MaxDocs + 2)
    /\ pc \in {"main", "loop", "print_pdf", "selected", "send", "sumatra",
               "win32", "w32_set", "w32_exec", "w32_finally", "finally",
               "done", "crashed"}
    /\ append_blank \in BOOLEAN
    /\ exc \in {NoExc, "error", "exit"}
    /\ defaultPrinter \in Printers
    /\ original \in Printers \cup {NoPrinter}
    /\ tmpFiles \subseteq (Sides \X DOMAIN pageCountOf)

\* --------------------------------------------- build_print_pdf on its own
\* build_print_pdf called on a reader of t >= 1 pages with any selection of
\* distinct pages of that reader and either blank flag.
Selections(t) ==
    UNION {{sel \in [1..n -> 1..t] :
               \A i, j \in 1..n : i # j => sel[i] # sel[j]} : n \in 0..MaxSel}

InitRender ==
    /\ pageCountOf \in {[d \in {1} |-> t] : t \in 1..MaxPages}
    /\ sumatraInstalled \in BOOLEAN
    /\ run = 1
    /\ side \in Sides
    /\ sumatra_exe = sumatraInstalled
    /\ pdf_files = <<1>>
    /\ idx = 1
    /\ pc = "build_print_pdf"
    /\ total = pageCountOf[1]
    /\ num_sheets = num_physical_sheets(total)
    /\ pages \in Selections(total)
    /\ append_blank \in BOOLEAN
    /\ sheets = <<>>
    /\ tmp_path = NoTmp
    /\ tmpFiles = {}
    /\ exc = NoExc
    /\ defaultPrinter \in Printers
    /\ original = NoPrinter
    /\ jobs = <<>>
    /\ selected = [s \in Sides |-> [d \in {1} |-> Unselected]]
    /\ outcome = [s \in Sides |-> [d \in {1} |-> "pending"]]

Render ==
    /\ pc = "build_print_pdf"
    /\ BuildPrintPdfReturns

RenderRaises ==
    /\ pc = "build_print_pdf"
    /\ BuildPrintPdfRaises

NextRender == Render \/ RenderRaises

SpecRender == InitRender /\ [][NextRender]_vars

\* ------------------------------------------------------- derived quantities
\* control positions inside print_pdf after the artifact has been written
Written == {"send", "sumatra", "win32", "w32_set", "w32_exec", "w32_finally",
            "finally"}

InPrintPdf == {"print_pdf", "selected"} \cup Written

InWin32Try == {"w32_set", "w32_exec", "w32_finally"}

Paths == DOMAIN pageCountOf

JobsFor(s, d) == SelectSeq(jobs, LAMBDA j : j.side = s /\ j.path = d)

JobsOfSide(s) == SelectSeq(jobs, LAMBDA j : j.side = s)

RECURSIVE SheetSum(_)
SheetSum(js) == IF js = <<>> THEN 0 ELSE Len(Head(js).sheets) + SheetSum(Tail(js))

Occurrences(seq, x) == Cardinality({i \in 1..Len(seq) : seq[i] = x})

\* the pages of a sequence of sheets, left to right, empty halves dropped
RECURSIVE Flatten(_)
Flatten(ss) ==
    IF ss = <<>> THEN <<>>
    ELSE SelectSeq(Head(ss), LAMBDA p : p # 0) \o Flatten(Tail(ss))

BothSelected(d) == selected["front"][d].done /\ selected["back"][d].done

BothReturned(d) == outcome["front"][d] = "returned" /\ outcome["back"][d] = "returned"

\* ------------------------------------------------------------------ claims

\* C1: for every document whose front and back selections have both been
\* computed, the two selections partition its pages: their lengths add up to
\* the page count, every page 1..pageCount occurs exactly once in the two
\* together, and no entry lies outside 1..pageCount.
C1_Partition ==
    \A d \in Paths :
        BothSelected(d) =>
            LET n == pageCountOf[d]
                both == selected["front"][d].pages \o selected["back"][d].pages
            IN  /\ Len(both) = n
                /\ \A p \in 1..n : Occurrences(both, p) = 1
                /\ \A i \in 1..Len(both) : both[i] \in 1..n

C1_Witness ==
    \E d \in Paths :
        /\ BothSelected(d)
        /\ pageCountOf[d] >= 5
        /\ pageCountOf[d] % 2 = 1
        /\ selected["back"][d].pages # <<>>

\* C2: in the back pass the blank flag computed by needs_back_blank is set
\* exactly when the sheet count computed by num_physical_sheets is odd, and
\* for every document with an odd sheet count the front selection fills one
\* sheet more than the back selection.
C2_BlankIffOddSheets ==
    /\ (side = "back" /\ pc \in InPrintPdf \ {"print_pdf"}) =>
           (append_blank <=> num_sheets % 2 = 1)
    /\ \A d \in Paths :
           (BothSelected(d) /\ num_physical_sheets(pageCountOf[d]) % 2 = 1) =>
               CeilHalf(Len(selected["front"][d].pages))
                   = CeilHalf(Len(selected["back"][d].pages)) + 1

C2_Witness ==
    /\ side = "back"
    /\ pc = "selected"
    /\ append_blank
    /\ num_sheets = 3
    /\ BothSelected(CurPath)

\* C3: a document for which print_pdf returned normally in both passes had
\* the same number of sheets handed to the printer in the front pass and in
\* the back pass (blank sheets included); when both passes ran to "All done"
\* the totals over the batch are equal.
C3_StackAlignment ==
    /\ \A d \in Paths :
           BothReturned(d) =>
               SheetSum(JobsFor("front", d)) = SheetSum(JobsFor("back", d))
    /\ (run = 2 /\ pc = "done") =>
           SheetSum(JobsOfSide("front")) = SheetSum(JobsOfSide("back"))

C3_Witness ==
    /\ run = 2
    /\ pc = "done"
    /\ \E d \in Paths :
           /\ pageCountOf[d] = MaxPages
           /\ SheetSum(JobsFor("back", d)) >= 2
    /\ \E d \in Paths :
           /\ pageCountOf[d] \in {1, 2}
           /\ SheetSum(JobsFor("back", d)) = 1

\* C4: once build_print_pdf has returned, the artifact holds
\* ceil(len(selection)/2) + (1 if blank flag) sheets; read left to right the
\* real sheets give back the selection (same order, every page once); the
\* blank sheet, when present, is the last sheet and every sheet before it has
\* a page on its left half.
C4_BuildPrintPdf ==
    pc = "send" =>
        LET real == CeilHalf(Len(pages))
        IN  /\ Len(sheets) = real + (IF append_blank THEN 1 ELSE 0)
            /\ Flatten(SubSeq(sheets, 1, real)) = pages
            /\ \A k \in 1..real : sheets[k][1] # 0
            /\ \A k \in 1..Len(sheets) :
                   sheets[k] = BlankSheet => (append_blank /\ k = Len(sheets))
            /\ append_blank => sheets[Len(sheets)] = BlankSheet

C4_Witness ==
    /\ pc = "send"
    /\ Len(pages) = 3
    /\ append_blank
    /\ Len(sheets) = 3

\* C7: outside the try block of print_via_win32, once the original default
\* printer has been read, the system default printer equals that original
\* value, whether the block was left normally or by an exception.
C7_DefaultPrinterRestored ==
    (original # NoPrinter /\ pc \notin InWin32Try) => defaultPrinter = original

C7_Witness ==
    /\ pc = "finally"
    /\ ~sumatra_exe
    /\ exc = "error"
    /\ original # PRINTER_NAME
    /\ original # NoPrinter

\* C8: an empty selection occurs only for page counts 0, 1 and 2; in the back
\* pass the test num_sheets >= 1 agrees with the blank flag there; print_pdf
\* hands over an artifact for it only in the back pass with the blank flag
\* set, and that artifact is a single blank sheet; when print_pdf has returned
\* for such a document there is exactly one such job if the pass is back and
\* needs_back_blank holds (page count 1 or 2), and no job otherwise.
C8_EmptySelection ==
    /\ (pc = "selected" /\ pages = <<>> /\ side = "back") =>
           (num_sheets >= 1 <=> append_blank)
    /\ (pc \in Written /\ pages = <<>>) =>
           /\ side = "back"
           /\ append_blank
           /\ total \in {1, 2}
           /\ sheets = <<BlankSheet>>
    /\ \A s \in Sides : \A d \in Paths :
           (selected[s][d].done /\ selected[s][d].pages = <<>>) =>
               /\ pageCountOf[d] \in {0, 1, 2}
               /\ (s = "back" /\ needs_back_blank(pageCountOf[d]))
                      <=> (s = "back" /\ pageCountOf[d] \in {1, 2})
               /\ \A i \in 1..Len(JobsFor(s, d)) :
                      JobsFor(s, d)[i].sheets = <<BlankSheet>>
               /\ outcome[s][d] = "returned" =>
                      IF s = "back" /\ needs_back_blank(pageCountOf[d])
                      THEN Len(JobsFor(s, d)) = 1
                      ELSE Len(JobsFor(s, d)) = 0

C8_Witness ==
    /\ \E d \in Paths :
           /\ pageCountOf[d] = 2
           /\ outcome["back"][d] = "returned"
           /\ JobsFor("back", d) = <<[path |-> d, side |-> "back",
                                      sheets |-> <<BlankSheet>>]>>
    /\ \E d \in Paths :
           /\ pageCountOf[d] = 0
           /\ outcome["back"][d] = "returned"
           /\ JobsFor("back", d) = <<>>

\* C10: every real sheet of a written artifact holds on its left an odd page
\* p = 2s+1 where s is a sheet index of the pass (even for front, odd for
\* back, below the sheet count) and on its right either p+1 or nothing; the
\* right half is empty only on the last real sheet and only when p is the
\* last page of the document.
C10_SheetsPreserved ==
    (pc \in Written /\ pages # <<>>) =>
        LET real == CeilHalf(Len(pages))
        IN  \A k \in 1..real :
                LET p == sheets[k][1]
                    r == sheets[k][2]
                    s == (p - 1) \div 2
                IN  /\ p % 2 = 1
                    /\ s \in 0..(num_sheets - 1)
                    /\ s % 2 = (IF side = "front" THEN 0 ELSE 1)
                    /\ r \in {p + 1, 0}
                    /\ r = p + 1 => r <= total
                    /\ r = 0 => (k = real /\ p = total)

C10_Witness ==
    /\ pc = "send"
    /\ side = "back"
    /\ total = 7
    /\ sheets = <<<<3, 4>>, <<7, 0>>>>

\* C5: when the script has ended, print_pdf has been called on every
\* document of the batch: a failure in one document does not keep the later
\* ones from being processed.
C5_BatchContinues ==
    pc \in {"done", "crashed"} => \A d \in Paths : outcome[side][d] # "pending"

\* C6: whenever print_pdf is not running (it has returned or raised), no
\* temporary file it created exists.
C6_NoTempFileLeft ==
    pc \notin InPrintPdf => tmpFiles = {}

\* C9: documents are handled one at a time in sorted order: at most one job
\* per document per pass, jobs in ascending path order within a pass, every
\* job holding the fully built sheets of its selection, and while print_pdf
\* works on one document no temporary artifact of another document exists.
C9_OneAtATime ==
    /\ \A s \in Sides : \A d \in Paths : Len(JobsFor(s, d)) <= 1
    /\ \A s \in Sides :
           \A i, j \in 1..Len(JobsOfSide(s)) :
               i < j => JobsOfSide(s)[i].path < JobsOfSide(s)[j].path
    /\ \A i \in 1..Len(jobs) :
           LET j == jobs[i]
           IN  Len(j.sheets) = CeilHalf(Len(selected[j.side][j.path].pages))
                   + (IF j.side = "back" /\ needs_back_blank(pageCountOf[j.path])
                      THEN 1 ELSE 0)
    /\ pc \in InPrintPdf => tmpFiles \subseteq {TmpName(side, CurPath)}

====
